---- MODULE Spec2Model ----
(***************************************************************************)
(* A model of the SECD-like bytecode interpreter of src/runtime/secd.c:    *)
(* the dispatch loop interp(), the environment functions extend() and      *)
(* lookup(), and the closure constructor mkclosure().                      *)
(*                                                                         *)
(* Values are untagged machine words, as in the C code: an integer or the  *)
(* address of a heap cell.  The address of the i-th allocated cell is      *)
(* HeapBase + i and NULL is 0.  Undefined behaviour (a read through NULL   *)
(* or through a word that is not a cell address, a read outside a segment, *)
(* a read of a field never written) is a nondeterministic choice: the      *)
(* process crashes, or the read delivers some word of JunkVals.            *)
(***************************************************************************)
EXTENDS Integers, Sequences, FiniteSets, TLC

VARIABLES
  code,     \* code segment: [0..CODE_MAX-1 -> Int]
  stack,    \* stack segment: [0..STACK_MAX-1 -> Int]
  dump,     \* dump segment: [0..DUMP_MAX-1 -> frame]
  heap,     \* the cells handed out by alloc_cell, in allocation order
  pc,       \* program counter
  sp,       \* stack pointer
  dp,       \* dump pointer
  env,      \* environment pointer
  status,   \* "running", or how interp() ended
  result,   \* the value interp() returned (status = "halted")
  diag,     \* what the invalid-opcode diagnostic printed
  lk,       \* the last call of lookup(): its arguments and how it ended
  last,     \* history: the instruction executed last, with its operands
  gdump,    \* history: for each live dump frame, who pushed it and when
  matched,  \* history: every pop so far took a frame of its own kind
  born,     \* history: for each heap cell, the instruction that allocated it
  oob       \* history: some access fell outside a segment

vars == <<code, stack, dump, heap, pc, sp, dp, env, status, result, diag, lk,
          last, gdump, matched, born, oob>>

----------------------------------------------------------------------------
(* Capacities and value ranges of the bounded model.                       *)

CODE_MAX == 28
STACK_MAX == 4
DUMP_MAX == 5
MaxInt == 2
MaxJunk == 1
MaxDepth == 2
MaxCells == 3

(* Opcode numbers and the cell address space (secd.h).                     *)
HALT == 0
LDC == 1
LD == 2
ADD == 3
SUB == 4
MUL == 5
SEL == 6
LDF == 7
LDRF == 8
AP == 9
RTN == 10
JOIN == 11
NULL == 0
HeapBase == 100

(* a word that is no opcode                                               *)
BadOp == JOIN + 1
Ints == (0 - MaxInt)..MaxInt
JunkVals == (0 - 1)..MaxJunk
(* the values bound in the environments built by extend on its own       *)
EnvVals == {0 - MaxInt, 0, MaxInt}

----------------------------------------------------------------------------
(* The heap: cells, field accessors, extend, lookup, mkclosure.            *)

AddrOf(i) == HeapBase + i
ValidAddr(h, p) == (p - HeapBase) \in 1..Len(h)
CellAt(h, p) == h[p - HeapBase]
IsEnvNode(h, p) == ValidAddr(h, p) /\ CellAt(h, p).kind = "env"
IsClosure(h, p) == ValidAddr(h, p) /\ CellAt(h, p).kind = "clo"

alloc_cell(h) == AddrOf(Len(h) + 1)

SET_ELM(h, p, v) == [h EXCEPT ![p - HeapBase].a = v]

(* extend that drops the link to the environment it extends               *)
extend_NoLink(h, elm, e) ==
  [ptr |-> alloc_cell(h),
   heap |-> Append(h, [kind |-> "env", a |-> elm, b |-> NULL])]

extend(h, elm, e) ==
  [ptr |-> alloc_cell(h),
   heap |-> Append(h, [kind |-> "env", a |-> elm, b |-> e])]

mkclosure(h, t, e) ==
  [ptr |-> alloc_cell(h),
   heap |-> Append(h, [kind |-> "clo", a |-> t, b |-> e])]

(* lookup(n, env): "value" with the element found, "assert" when the       *)
(* assertion env != NULL fails inside the loop, "nullread" when GET_ELM    *)
(* is applied to NULL after the loop, "wild" when a field is read through  *)
(* a word that is not the address of an environment node.                  *)
RECURSIVE lookup(_, _, _)
lookup(h, n, e) ==
  IF n > 0
  THEN IF e = NULL THEN [kind |-> "assert", val |-> 0]
       ELSE IF IsEnvNode(h, e) THEN lookup(h, n - 1, CellAt(h, e).b)
       ELSE [kind |-> "wild", val |-> 0]
  ELSE IF e = NULL THEN [kind |-> "nullread", val |-> 0]
       ELSE IF IsEnvNode(h, e) THEN [kind |-> "value", val |-> CellAt(h, e).a]
       ELSE [kind |-> "wild", val |-> 0]

(* The number of nodes of a well-formed environment list.                  *)
RECURSIVE EnvLen(_, _)
EnvLen(h, e) ==
  IF IsEnvNode(h, e) THEN 1 + EnvLen(h, CellAt(h, e).b) ELSE 0

----------------------------------------------------------------------------
(* Segment accesses.  A read outside the segment delivers the junk word j. *)

CodeIdx == 0..(CODE_MAX - 1)
StackIdx == 0..(STACK_MAX - 1)
DumpIdx == 0..(DUMP_MAX - 1)

CodeRd(i, j) == IF i \in CodeIdx THEN code[i] ELSE j
StackRd(i, j) == IF i \in StackIdx THEN stack[i] ELSE j
StackWr(st, i, v) == IF i \in StackIdx THEN [st EXCEPT ![i] = v] ELSE st

(* the assertions with inclusive upper bounds                              *)
RegsInBounds_Inclusive(nsp, ndp, npc) ==
  /\ nsp >= 0 /\ nsp <= STACK_MAX
  /\ ndp >= 0 /\ ndp <= DUMP_MAX
  /\ npc >= 0 /\ npc <= CODE_MAX

(* the assertions without the lower bound of dp                            *)
RegsInBounds_NoDpLower(nsp, ndp, npc) ==
  /\ nsp >= 0 /\ nsp < STACK_MAX
  /\ ndp < DUMP_MAX
  /\ npc >= 0 /\ npc < CODE_MAX

(* The three assertions at the bottom of the loop.                         *)
RegsInBounds(nsp, ndp, npc) ==
  /\ nsp >= 0 /\ nsp < STACK_MAX
  /\ ndp >= 0 /\ ndp < DUMP_MAX
  /\ npc >= 0 /\ npc < CODE_MAX

AfterCheck(crash, nsp, ndp, npc) ==
  IF crash THEN "crash"
  ELSE IF RegsInBounds(nsp, ndp, npc) THEN "running" ELSE "bounds"

Opcodes == {HALT, LDC, LD, ADD, SUB, MUL, SEL, LDF, LDRF, AP, RTN, JOIN}

Fetching(op) == status = "running" /\ code[pc] = op

NoFrame == [kind |-> "none", at |-> 0, env |-> NULL, clo |-> NULL, nested |-> FALSE]
NoLookup == [n |-> 0, env |-> NULL, kind |-> "none", val |-> 0]

(* The record of the instruction just executed: its opcode, the index it   *)
(* was fetched at, the registers before it, its operands (x, y) and the    *)
(* history frame it pushed or popped.                                      *)
Did(op, x, y, fr) ==
  [op |-> op, at |-> pc, sp |-> sp, dp |-> dp, env |-> env,
   x |-> x, y |-> y, fr |-> fr, cells |-> Len(heap), wasMatched |-> matched]

MarkNested(g) == [i \in 1..Len(g) |-> [g[i] EXCEPT !.nested = TRUE]]

----------------------------------------------------------------------------
(* Programs.  A program is loaded at index 0; the words of the code        *)
(* segment after it hold the filler word f.                                *)

Pad(s, f) == [i \in CodeIdx |-> IF i < Len(s) THEN s[i + 1] ELSE f]

ArithProg(op, a, b) == <<LDC, a, LDC, b, op, HALT>>

(* if c = 0 then x else y                                                  *)
SelProg(c, x, y) == <<LDC, c, SEL, 6, 9, HALT, LDC, x, JOIN, LDC, y, JOIN>>

(* (\v. LD n) v                                                            *)
ApplyProg(ldf, v, n) == <<ldf, 6, LDC, v, AP, HALT, LD, n, RTN>>

(* ((\x. \y. LD n) a) b                                                    *)
CurryProg(a, b, n) ==
  <<LDF, 9, LDC, a, AP, LDC, b, AP, HALT, LDF, 12, RTN, LD, n, RTN>>

(* letrec f = \x. if x = 0 then r else f (x - 1) in f v                    *)
CountProg(v, r) ==
  <<LDRF, 6, LDC, v, AP, HALT,
    LD, 0, SEL, 12, 15, RTN,
    LDC, r, JOIN,
    LD, 1, LD, 0, LDC, 1, SUB, AP, JOIN>>

(* (\x. if x = 0 then (\y. LD 1) a else (\y. LD 0) b) c, a call inside     *)
(* each branch of a conditional inside a call                              *)
BranchCallProg(c, a, b) ==
  <<LDF, 6, LDC, c, AP, HALT,
    LD, 0, SEL, 12, 18, RTN,
    LDF, 24, LDC, a, AP, JOIN,
    LDRF, 24, LDC, b, AP, JOIN,
    LD, 1, RTN>>

(* a frame popped by the instruction of the other kind                     *)
MismatchProg(c) ==
  {<<LDF, 6, LDC, c, AP, HALT, LDC, 1, JOIN>>,
   <<LDC, c, SEL, 6, 6, HALT, LDC, 1, RTN>>}

(* STACK_MAX pushes, the last one by the instruction op                    *)
FillProg(op) ==
  [i \in 1..(2 * (STACK_MAX - 1)) |-> IF i % 2 = 1 THEN LDC ELSE 1]
    \o <<op, 0, HALT>>

SmallInstrs ==
  {<<LDC, 0>>, <<LDC, 1>>, <<LD, 0>>, <<LD, 1>>, <<ADD>>, <<SUB>>, <<MUL>>,
   <<SEL, 0, 5>>, <<SEL, 5, 2>>, <<LDF, 0>>, <<LDF, 5>>, <<LDRF, 0>>,
   <<LDRF, 5>>, <<AP>>, <<RTN>>, <<JOIN>>, <<HALT>>, <<BadOp>>, <<0 - 1>>}

SmallProgs ==
  {<<>>} \cup SmallInstrs
    \cup {a \o b : a \in SmallInstrs, b \in SmallInstrs}
    \cup {a \o b \o c : a \in SmallInstrs, b \in SmallInstrs, c \in SmallInstrs}

Programs ==
  {ArithProg(op, a, b) : op \in {ADD, SUB, MUL}, a \in Ints, b \in Ints}
    \cup {SelProg(c, 1, 2) : c \in Ints}
    \cup {ApplyProg(f, v, n) : f \in {LDF, LDRF}, v \in Ints, n \in 0..2}
    \cup {CurryProg(a, b, n) : a \in Ints, b \in Ints, n \in 0..2}
    \cup {CountProg(v, r) : v \in Ints, r \in {0, 1}}
    \cup {BranchCallProg(c, a, 2) : c \in Ints, a \in Ints}
    \cup UNION {MismatchProg(c) : c \in {0, 1}}
    \cup {FillProg(op) : op \in {LDC, LDF, LDRF}}
    \cup SmallProgs

Fillers == {HALT, BadOp}

----------------------------------------------------------------------------
(* interp(): the state before the first instruction.  The stack and dump   *)
(* segments are uninitialised; no word of the stack is read before it has  *)
(* been written, and a frame's env field records whether it was written.   *)

Init ==
  /\ \E p \in Programs, f \in Fillers : code = Pad(p, f)
  /\ stack = [i \in StackIdx |-> 0]
  /\ dump = [i \in DumpIdx |-> [pc |-> 0, env |-> NULL, envInit |-> FALSE]]
  /\ heap = <<>>
  /\ pc = 0
  /\ sp = 0
  /\ dp = 0
  /\ env = NULL
  /\ status = "running"
  /\ result = 0
  /\ diag = [opcode |-> 0, pc |-> 0]
  /\ lk = NoLookup
  /\ last = [op |-> 0 - 2, at |-> 0, sp |-> 0, dp |-> 0, env |-> NULL,
             x |-> 0, y |-> 0, fr |-> NoFrame, cells |-> 0, wasMatched |-> TRUE]
  /\ gdump = <<>>
  /\ matched = TRUE
  /\ born = <<>>
  /\ oob = FALSE

----------------------------------------------------------------------------
(* interp(): one action per case of the switch, each followed by the       *)
(* register assertions.  j, j2 are the words an undefined read delivers    *)
(* and crash says whether an undefined access ends the process.            *)

Quiet == /\ UNCHANGED <<code, result, diag>>

(* The words an undefined read may deliver and whether the access may end  *)
(* the process: a choice only where the access is undefined.               *)
JunkIf(ub) == IF ub THEN JunkVals ELSE {0}
CrashIf(ub) == IF ub THEN BOOLEAN ELSE {FALSE}

(* SEL, AP: dp++.                                                          *)
DumpPush(d) == d + 1

(* a pop that leaves dp as it is                                           *)
DumpPop_Keep(d) == d

(* RTN, JOIN: dp--.                                                        *)
DumpPop(d) == d - 1

(* SEL saving its own index: the join re-executes the select              *)
JoinAddr_Self(fetchedAt) == fetchedAt

(* SEL: dump[dp].pc = pc+2 after the opcode fetch, i.e. the index after    *)
(* the two operand words.                                                  *)
JoinAddr(fetchedAt) == fetchedAt + 3

(* AP: dump[dp].pc = pc; dump[dp].env = env.                               *)
CallFrame(fetchedAt, e) ==
  [pc |-> fetchedAt + 1, env |-> e, envInit |-> TRUE]

(* AP extending the caller's environment: dynamic scoping                 *)
ApplyEnv_Dynamic(h, opa, cenv, callerEnv) == extend(h, opa, callerEnv)

(* AP: env = extend(opa, GET_ENV(cptr)).                                   *)
(* AP that stores the argument in the head node of the closure's           *)
(* environment when there is one, allocating nothing                       *)
ApplyEnv_InPlace(h, opa, cenv, callerEnv) ==
  IF IsEnvNode(h, cenv)
  THEN [ptr |-> cenv, heap |-> SET_ELM(h, cenv, opa)]
  ELSE extend(h, opa, cenv)

ApplyEnv(h, opa, cenv, callerEnv) == extend(h, opa, cenv)

(* RTN that restores pc only                                              *)
RtnRestore_KeepEnv(fr, e) == [pc |-> fr.pc, env |-> e]

(* RTN: pc = dump[dp].pc; env = dump[dp].env.                              *)
RtnRestore(fr, e) == [pc |-> fr.pc, env |-> fr.env]

(* JOIN that restores env as RTN does                                     *)
JoinRestore_Env(fr, e) == [pc |-> fr.pc, env |-> fr.env]

(* JOIN: pc = dump[dp].pc.                                                 *)
JoinRestore(fr, e) == [pc |-> fr.pc, env |-> e]

(* LDRF without the back-patch of the placeholder                         *)
TieKnot_NoPatch(h, t, e) ==
  LET nenv == extend(h, NULL, e)
      mk == mkclosure(nenv.heap, t, nenv.ptr)
  IN [ptr |-> mk.ptr, heap |-> mk.heap]

(* LDRF whose closure captures the current environment, not the extended   *)
(* one                                                                     *)
TieKnot_CaptureOuter(h, t, e) ==
  LET nenv == extend(h, NULL, e)
      mk == mkclosure(nenv.heap, t, e)
  IN [ptr |-> mk.ptr, heap |-> SET_ELM(mk.heap, nenv.ptr, mk.ptr)]

(* LDRF that back-patches the head of the current environment instead of   *)
(* the placeholder node                                                    *)
TieKnot_PatchOuter(h, t, e) ==
  LET nenv == extend(h, NULL, e)
      mk == mkclosure(nenv.heap, t, nenv.ptr)
  IN [ptr |-> mk.ptr,
      heap |-> IF IsEnvNode(h, e) THEN SET_ELM(mk.heap, e, mk.ptr)
               ELSE mk.heap]

(* LDRF: nenv = extend(NULL, env); cptr = mkclosure(t, nenv);              *)
(* SET_ELM(nenv, cptr).                                                    *)
TieKnot(h, t, e) ==
  LET nenv == extend(h, NULL, e)
      mk == mkclosure(nenv.heap, t, nenv.ptr)
  IN [ptr |-> mk.ptr, heap |-> SET_ELM(mk.heap, nenv.ptr, mk.ptr)]

ExecLDC ==
  /\ Fetching(LDC)
  /\ \E j \in JunkIf((pc + 1) \notin CodeIdx),
        crash \in CrashIf((pc + 1) \notin CodeIdx) :
       LET ub == (pc + 1) \notin CodeIdx
           opa == CodeRd(pc + 1, j)
       IN /\ stack' = StackWr(stack, sp, opa)
          /\ sp' = sp + 1
          /\ pc' = pc + 2
          /\ status' = AfterCheck(ub /\ crash, sp + 1, dp, pc + 2)
          /\ oob' = (oob \/ ub)
          /\ last' = Did(LDC, opa, 0, NoFrame)
  /\ Quiet
  /\ UNCHANGED <<dump, heap, dp, env, lk, gdump, matched, born>>

ExecLD ==
  /\ Fetching(LD)
  /\ \E j \in JunkIf((pc + 1) \notin CodeIdx) :
     \E j2 \in JunkIf(lookup(heap, CodeRd(pc + 1, j), env).kind
                         \in {"nullread", "wild"}),
        crash \in BOOLEAN :
       LET ubc == (pc + 1) \notin CodeIdx
           t == CodeRd(pc + 1, j)
           r == lookup(heap, t, env)
           ubl == r.kind \in {"nullread", "wild"}
           v == IF r.kind = "value" THEN r.val ELSE j2
       IN /\ lk' = [n |-> t, env |-> env, kind |-> r.kind, val |-> v]
          /\ pc' = pc + 2
          /\ oob' = (oob \/ ubc)
          /\ last' = Did(LD, t, v, NoFrame)
          /\ IF r.kind = "assert"
             THEN /\ status' = "lookup_assert"
                  /\ UNCHANGED <<stack, sp>>
             ELSE IF (ubc \/ ubl) /\ crash
             THEN /\ status' = "crash"
                  /\ UNCHANGED <<stack, sp>>
             ELSE /\ stack' = StackWr(stack, sp, v)
                  /\ sp' = sp + 1
                  /\ status' = AfterCheck(FALSE, sp + 1, dp, pc + 2)
  /\ Quiet
  /\ UNCHANGED <<dump, heap, dp, env, gdump, matched, born>>

AddOp(opa, opb) == opa + opb
(* SUB with its operands the other way round                              *)
SubOp_Swapped(opa, opb) == opa - opb
SubOp(opa, opb) == opb - opa
MulOp(opa, opb) == opa * opb

(* ADD, SUB and MUL: opa = stack[--sp]; opb = stack[--sp]; push.          *)
ArithOp(op, opa, opb) ==
  IF op = ADD THEN AddOp(opa, opb)
  ELSE IF op = SUB THEN SubOp(opa, opb)
  ELSE MulOp(opa, opb)

Arith(op) ==
  /\ Fetching(op)
  /\ \E j \in JunkIf((sp - 1) \notin StackIdx),
        j2 \in JunkIf((sp - 2) \notin StackIdx),
        crash \in CrashIf((sp - 2) \notin StackIdx) :
       LET ub == (sp - 2) \notin StackIdx
           opa == StackRd(sp - 1, j)
           opb == StackRd(sp - 2, j2)
       IN /\ stack' = StackWr(stack, sp - 2, ArithOp(op, opa, opb))
          /\ sp' = sp - 1
          /\ pc' = pc + 1
          /\ status' = AfterCheck(ub /\ crash, sp - 1, dp, pc + 1)
          /\ oob' = (oob \/ ub)
          /\ last' = Did(op, opa, opb, NoFrame)
  /\ Quiet
  /\ UNCHANGED <<dump, heap, dp, env, lk, gdump, matched, born>>

ExecADD == Arith(ADD)
ExecSUB == Arith(SUB)
ExecMUL == Arith(MUL)

(* SEL that treats a negative cond as zero                                *)
SelTarget_Positive(opa, thenAddr, elseAddr) ==
  IF opa > 0 THEN elseAddr ELSE thenAddr

SelTarget(opa, thenAddr, elseAddr) == IF opa = 0 THEN thenAddr ELSE elseAddr

ExecSEL ==
  /\ Fetching(SEL)
  /\ \E j \in JunkIf((sp - 1) \notin StackIdx),
        j2 \in JunkIf((pc + 2) \notin CodeIdx),
        crash \in CrashIf((sp - 1) \notin StackIdx \/ (pc + 2) \notin CodeIdx) :
       LET ubs == (sp - 1) \notin StackIdx
           ubc == (pc + 2) \notin CodeIdx
           opa == StackRd(sp - 1, j)
           npc == SelTarget(opa, CodeRd(pc + 1, j2), CodeRd(pc + 2, j2))
           fr == [kind |-> "branch", at |-> pc, env |-> env, clo |-> NULL,
                  nested |-> FALSE]
       IN /\ sp' = sp - 1
          /\ dump' = [dump EXCEPT ![dp].pc = JoinAddr(pc)]
          /\ dp' = DumpPush(dp)
          /\ pc' = npc
          /\ status' = AfterCheck((ubs \/ ubc) /\ crash, sp - 1, DumpPush(dp), npc)
          /\ oob' = (oob \/ ubs \/ ubc)
          /\ gdump' = Append(MarkNested(gdump), fr)
          /\ last' = Did(SEL, opa, 0, fr)
  /\ Quiet
  /\ UNCHANGED <<stack, heap, env, lk, matched, born>>

ExecLDF ==
  /\ Fetching(LDF)
  /\ \E j \in JunkIf((pc + 1) \notin CodeIdx),
        crash \in CrashIf((pc + 1) \notin CodeIdx) :
       LET ub == (pc + 1) \notin CodeIdx
           t == CodeRd(pc + 1, j)
           mk == mkclosure(heap, t, env)
       IN /\ heap' = mk.heap
          /\ born' = Append(born, [by |-> LDF, env |-> env, clo |-> NULL,
                                   arg |-> 0])
          /\ stack' = StackWr(stack, sp, mk.ptr)
          /\ sp' = sp + 1
          /\ pc' = pc + 2
          /\ status' = AfterCheck(ub /\ crash, sp + 1, dp, pc + 2)
          /\ oob' = (oob \/ ub)
          /\ last' = Did(LDF, t, mk.ptr, NoFrame)
  /\ Quiet
  /\ UNCHANGED <<dump, dp, env, lk, gdump, matched>>

ExecLDRF ==
  /\ Fetching(LDRF)
  /\ \E j \in JunkIf((pc + 1) \notin CodeIdx),
        crash \in CrashIf((pc + 1) \notin CodeIdx) :
       LET ub == (pc + 1) \notin CodeIdx
           t == CodeRd(pc + 1, j)
           mk == TieKnot(heap, t, env)
       IN /\ heap' = mk.heap
          /\ born' = born \o
               <<[by |-> LDRF, env |-> env, clo |-> mk.ptr, arg |-> 0],
                 [by |-> LDRF, env |-> env, clo |-> NULL, arg |-> 0]>>
          /\ stack' = StackWr(stack, sp, mk.ptr)
          /\ sp' = sp + 1
          /\ pc' = pc + 2
          /\ status' = AfterCheck(ub /\ crash, sp + 1, dp, pc + 2)
          /\ oob' = (oob \/ ub)
          /\ last' = Did(LDRF, t, mk.ptr, NoFrame)
  /\ Quiet
  /\ UNCHANGED <<dump, dp, env, lk, gdump, matched>>

ExecAP ==
  /\ Fetching(AP)
  /\ \E j \in JunkIf((sp - 1) \notin StackIdx),
        j2 \in JunkIf((sp - 2) \notin StackIdx) :
     \E j3 \in JunkIf(~IsClosure(heap, StackRd(sp - 2, j2))),
        crash \in BOOLEAN :
       LET ubs == (sp - 2) \notin StackIdx
           opa == StackRd(sp - 1, j)
           cptr == StackRd(sp - 2, j2)
           ubp == ~IsClosure(heap, cptr)
           cenv == IF ubp THEN j3 ELSE CellAt(heap, cptr).b
           ccode == IF ubp THEN j3 ELSE CellAt(heap, cptr).a
           nenv == ApplyEnv(heap, opa, cenv, env)
           fr == [kind |-> "call", at |-> pc, env |-> env, clo |-> cptr,
                  nested |-> FALSE]
       IN /\ sp' = sp - 2
          /\ dump' = [dump EXCEPT ![dp] = CallFrame(pc, env)]
          /\ dp' = DumpPush(dp)
          /\ gdump' = Append(MarkNested(gdump), fr)
          /\ oob' = (oob \/ ubs)
          /\ last' = Did(AP, opa, cptr, fr)
          /\ IF (ubs \/ ubp) /\ crash
             THEN /\ status' = "crash"
                  /\ pc' = pc + 1
                  /\ UNCHANGED <<heap, born, env>>
             ELSE /\ heap' = nenv.heap
                  /\ born' = Append(born, [by |-> AP, env |-> cenv, clo |-> cptr,
                                         arg |-> opa])
                  /\ env' = nenv.ptr
                  /\ pc' = ccode
                  /\ status' = AfterCheck(FALSE, sp - 2, DumpPush(dp), ccode)
  /\ Quiet
  /\ UNCHANGED <<stack, lk, matched>>

(* The history frame a pop takes, and the history dump it leaves.          *)
TopFrame == IF Len(gdump) > 0 THEN gdump[Len(gdump)] ELSE NoFrame
PopFrame == IF Len(gdump) > 0 THEN SubSeq(gdump, 1, Len(gdump) - 1) ELSE gdump

ExecRTN ==
  /\ Fetching(RTN)
  /\ \E j \in JunkIf((dp - 1) \notin DumpIdx),
        j2 \in JunkIf((dp - 1) \notin DumpIdx \/ ~dump[dp - 1].envInit),
        crash \in CrashIf((dp - 1) \notin DumpIdx \/ ~dump[dp - 1].envInit) :
       LET ubd == (dp - 1) \notin DumpIdx
           ube == ~ubd /\ ~dump[dp - 1].envInit
           fr == IF ubd THEN [pc |-> j, env |-> j2]
                 ELSE IF ube THEN [pc |-> dump[dp - 1].pc, env |-> j2]
                 ELSE dump[dp - 1]
           r == RtnRestore(fr, env)
       IN /\ dp' = DumpPop(dp)
          /\ pc' = r.pc
          /\ env' = r.env
          /\ status' = AfterCheck((ubd \/ ube) /\ crash, sp, DumpPop(dp), r.pc)
          /\ oob' = (oob \/ ubd)
          /\ matched' = (matched /\ TopFrame.kind = "call")
          /\ gdump' = PopFrame
          /\ last' = Did(RTN, 0, 0, TopFrame)
  /\ Quiet
  /\ UNCHANGED <<stack, dump, heap, sp, lk, born>>

ExecJOIN ==
  /\ Fetching(JOIN)
  /\ \E j \in JunkIf((dp - 1) \notin DumpIdx),
        j2 \in JunkIf((dp - 1) \notin DumpIdx \/ ~dump[dp - 1].envInit),
        crash \in CrashIf((dp - 1) \notin DumpIdx) :
       LET ubd == (dp - 1) \notin DumpIdx
           fr == IF ubd THEN [pc |-> j, env |-> j2]
                 ELSE IF ~dump[dp - 1].envInit
                      THEN [pc |-> dump[dp - 1].pc, env |-> j2]
                 ELSE dump[dp - 1]
           r == JoinRestore(fr, env)
       IN /\ dp' = DumpPop(dp)
          /\ pc' = r.pc
          /\ env' = r.env
          /\ status' = AfterCheck(ubd /\ crash, sp, DumpPop(dp), r.pc)
          /\ oob' = (oob \/ ubd)
          /\ matched' = (matched /\ TopFrame.kind = "branch")
          /\ gdump' = PopFrame
          /\ last' = Did(JOIN, 0, 0, TopFrame)
  /\ Quiet
  /\ UNCHANGED <<stack, dump, heap, sp, lk, born>>

(* HALT returns stack[--sp] without reaching the register assertions.      *)
ExecHALT ==
  /\ Fetching(HALT)
  /\ \E j \in JunkIf((sp - 1) \notin StackIdx),
        crash \in CrashIf((sp - 1) \notin StackIdx) :
       LET ub == (sp - 1) \notin StackIdx
       IN /\ sp' = sp - 1
          /\ pc' = pc + 1
          /\ result' = IF ub /\ crash THEN result ELSE StackRd(sp - 1, j)
          /\ status' = IF ub /\ crash THEN "crash" ELSE "halted"
          /\ oob' = (oob \/ ub)
          /\ last' = Did(HALT, StackRd(sp - 1, j), 0, NoFrame)
  /\ UNCHANGED <<code, diag, stack, dump, heap, dp, env, lk, gdump, matched, born>>

(* default: the diagnostic prints opcode and pc, then exit(-1).            *)
DiagPc(fetchedAt) == fetchedAt + 1

ExecInvalid ==
  /\ status = "running"
  /\ code[pc] \notin Opcodes
  /\ pc' = pc + 1
  /\ diag' = [opcode |-> code[pc], pc |-> DiagPc(pc)]
  /\ status' = "invalid_opcode"
  /\ last' = Did(code[pc], 0, 0, NoFrame)
  /\ UNCHANGED <<code, result, stack, dump, heap, sp, dp, env, lk, gdump,
                 matched, born, oob>>

Next ==
  \/ ExecLDC
  \/ ExecLD
  \/ ExecADD
  \/ ExecSUB
  \/ ExecMUL
  \/ ExecSEL
  \/ ExecLDF
  \/ ExecLDRF
  \/ ExecAP
  \/ ExecRTN
  \/ ExecJOIN
  \/ ExecHALT
  \/ ExecInvalid

Spec == Init /\ [][Next]_vars

(* The loop has no suspension point: while an instruction can be executed  *)
(* the next one is executed.                                               *)
LiveSpec == Init /\ [][Next]_vars /\ WF_vars(Next)

TypeOK ==
  /\ status \in {"running", "halted", "invalid_opcode", "bounds",
                 "lookup_assert", "crash"}
  /\ status = "running" => RegsInBounds(sp, dp, pc)
  /\ Len(born) = Len(heap)

----------------------------------------------------------------------------
(* extend() and lookup() on their own: environments of at most MaxDepth    *)
(* nodes are built over EnvVals in a heap of at most MaxCells cells, an       *)
(* older environment is made current again (as RTN does), and lookup is    *)
(* called with every index up to MaxDepth + 1.                             *)

EnvInit ==
  /\ code = Pad(<<>>, HALT)
  /\ stack = [i \in StackIdx |-> 0]
  /\ dump = [i \in DumpIdx |-> [pc |-> 0, env |-> NULL, envInit |-> FALSE]]
  /\ heap = <<>>
  /\ pc = 0
  /\ sp = 0
  /\ dp = 0
  /\ env = NULL
  /\ status = "running"
  /\ result = 0
  /\ diag = [opcode |-> 0, pc |-> 0]
  /\ lk = NoLookup
  /\ last = [op |-> 0 - 2, at |-> 0, sp |-> 0, dp |-> 0, env |-> NULL,
             x |-> 0, y |-> 0, fr |-> NoFrame, cells |-> 0, wasMatched |-> TRUE]
  /\ gdump = <<>>
  /\ matched = TRUE
  /\ born = <<>>
  /\ oob = FALSE

EnvFrame == <<code, stack, dump, pc, sp, dp, status, result, diag, last,
              gdump, matched, born, oob>>

CallExtend ==
  /\ EnvLen(heap, env) < MaxDepth
  /\ Len(heap) < MaxCells
  /\ \E v \in EnvVals :
       LET r == extend(heap, v, env)
       IN /\ heap' = r.heap
          /\ env' = r.ptr
  /\ lk' = NoLookup
  /\ UNCHANGED EnvFrame

CallLookup ==
  /\ \E n \in 0..(MaxDepth + 1) :
       LET r == lookup(heap, n, env)
       IN lk' = [n |-> n, env |-> env, kind |-> r.kind, val |-> r.val]
  /\ UNCHANGED <<heap, env>>
  /\ UNCHANGED EnvFrame

Restore ==
  /\ env # NULL
  /\ env' = CellAt(heap, env).b
  /\ lk' = NoLookup
  /\ UNCHANGED heap
  /\ UNCHANGED EnvFrame

EnvNext ==
  \/ CallExtend
  \/ CallLookup
  \/ Restore

EnvSpec == EnvInit /\ [][EnvNext]_vars

----------------------------------------------------------------------------
(* Properties.                                                             *)

BornOf(p) == born[p - HeapBase]

(* e is the environment AP built to enter closure c: the environment the   *)
(* instructions of c's body run in.                                        *)
BodyEnvOf(e, by) ==
  /\ IsEnvNode(heap, e)
  /\ BornOf(e).by = AP
  /\ IsClosure(heap, BornOf(e).clo)
  /\ BornOf(BornOf(e).clo).by = by

(* C1: when every pop so far has taken a frame of its own kind and RTN     *)
(* pops the frame an AP pushed, pc is the index after that AP and env is   *)
(* the environment that was current just before that AP.                   *)
ApplyReturnRoundTrip ==
  (last.op = RTN /\ last.wasMatched /\ last.fr.kind = "call")
    => (pc = last.fr.at + 1 /\ env = last.fr.env)

(* a return from a callee that itself pushed and popped frames and that    *)
(* ran in another environment than its caller                              *)
WitApplyReturn ==
  /\ last.op = RTN /\ last.wasMatched /\ last.fr.kind = "call"
  /\ last.fr.nested
  /\ last.env # env
  /\ env # NULL
  /\ status = "running"

(* C2 as stated: in the body of a closure built by LDRF, LD 0 pushes that  *)
(* closure.                                                                *)
RecursiveSelfAtIndexZero ==
  (last.op = LD /\ last.x = 0 /\ BodyEnvOf(last.env, LDRF)
     /\ status \in {"running", "bounds"})
    => (last.y = BornOf(last.env).clo /\ stack[last.sp] = BornOf(last.env).clo)

(* C2 amended: in the body of a closure built by LDRF, LD 1 pushes that    *)
(* closure and LD 0 pushes the argument the closure was applied to.        *)
RecursiveSelfAtIndexOne ==
  (last.op = LD /\ BodyEnvOf(last.env, LDRF)
     /\ status \in {"running", "bounds"})
    => /\ last.x = 1 =>
            /\ lk.kind = "value"
            /\ last.y = BornOf(last.env).clo
            /\ stack[last.sp] = BornOf(last.env).clo
       /\ last.x = 0 =>
            /\ lk.kind = "value"
            /\ last.y = BornOf(last.env).arg
            /\ stack[last.sp] = BornOf(last.env).arg

WitRecursiveSelf ==
  /\ last.op = LD /\ last.x = 1 /\ BodyEnvOf(last.env, LDRF)
  /\ stack[last.sp] = BornOf(last.env).clo
  /\ BornOf(last.env).arg # BornOf(last.env).clo
  /\ status = "running"

(* C4: every execution of the loop ends: in Halt or in a fault.            *)
Termination == <>(status # "running")

(* a recursion that never reaches its base case, stopped by the dump       *)
(* capacity                                                                *)
WitTermination ==
  /\ status = "bounds"
  /\ dp = DUMP_MAX
  /\ last.op = AP
  /\ BodyEnvOf(last.env, LDRF)
  /\ last.y = BornOf(last.env).clo

(* C5 as stated: on an unrecognized opcode the machine stops with no       *)
(* result, and the diagnostic carries the opcode and the index it was      *)
(* fetched at.                                                             *)
InvalidOpcodeReport ==
  status = "invalid_opcode"
    => /\ last.op \notin Opcodes
       /\ diag.opcode = code[last.at]
       /\ diag.pc = last.at
       /\ result = 0

(* C6: SEL pops cond, saves the index after its two operand words in the   *)
(* branch frame, and continues at the then-address when cond = 0 and at    *)
(* the else-address for every other cond.                                  *)
SelectBranch ==
  (last.op = SEL /\ last.sp >= 1 /\ last.at + 2 < CODE_MAX)
    => /\ last.x = stack[last.sp - 1]
       /\ sp = last.sp - 1
       /\ dp = last.dp + 1
       /\ dump[last.dp].pc = last.at + 3
       /\ last.x = 0 => pc = code[last.at + 1]
       /\ last.x # 0 => pc = code[last.at + 2]

(* a negative cond takes the else-address, which differs from the          *)
(* then-address                                                            *)
WitSelectBranch ==
  /\ last.op = SEL /\ last.sp >= 1 /\ last.at + 2 < CODE_MAX
  /\ last.x < 0
  /\ code[last.at + 1] # code[last.at + 2]
  /\ pc = code[last.at + 2]
  /\ status = "running"

(* C7: when every pop so far has taken a frame of its own kind and JOIN    *)
(* pops the frame a SEL pushed, pc is the index after that SEL's operand   *)
(* words and env is the environment that was current before the SEL; SEL   *)
(* and JOIN leave env as it is.                                            *)
SelectJoinConverge ==
  /\ (last.op = JOIN /\ last.wasMatched /\ last.fr.kind = "branch")
       => (pc = last.fr.at + 3 /\ env = last.fr.env)
  /\ last.op \in {SEL, JOIN} => env = last.env

(* a join after a branch that called a closure, inside a call              *)
WitSelectJoin ==
  /\ last.op = JOIN /\ last.wasMatched /\ last.fr.kind = "branch"
  /\ last.fr.nested
  /\ IsEnvNode(heap, env)
  /\ Len(gdump) > 0
  /\ gdump[Len(gdump)].kind = "call"
  /\ status = "running"

IsSubProgram ==
  /\ code[0] = LDC /\ code[2] = LDC /\ code[4] = SUB /\ code[5] = HALT

(* C8: LDC a; LDC b; SUB; HALT halts and yields a - b.                     *)
SubtractOrder ==
  (IsSubProgram /\ status # "running")
    => (status = "halted" /\ result = code[1] - code[3])

WitSubtract ==
  /\ IsSubProgram /\ status = "halted"
  /\ code[1] # code[3]
  /\ code[1] # 0
  /\ result = code[1] - code[3]

IsApplyProgram ==
  /\ code[0] = LDF /\ code[1] = 6 /\ code[2] = LDC /\ code[4] = AP
  /\ code[5] = HALT /\ code[6] = LD /\ code[7] = 0 /\ code[8] = RTN

(* C9: AP of a closure built by LDF to v makes extend(v, E) current, E     *)
(* being the environment current at that LDF; in the body LD 0 yields v    *)
(* and LD n+1 yields lookup(n, E); LDF f; LDC v; AP; HALT with f = LD 0;   *)
(* RTN yields v.                                                           *)
LexicalScope ==
  /\ (last.op = AP /\ last.sp >= 2 /\ IsClosure(heap, last.y)
        /\ BornOf(last.y).by = LDF)
       => /\ IsEnvNode(heap, env)
          /\ CellAt(heap, env).a = last.x
          /\ CellAt(heap, env).b = BornOf(last.y).env
          /\ pc = CellAt(heap, last.y).a
          /\ Len(heap) = last.cells + 1
  /\ (last.op = LD /\ BodyEnvOf(last.env, LDF))
       => /\ last.x = 0 => (lk.kind = "value" /\ lk.val = BornOf(last.env).arg)
          /\ last.x > 0 =>
               LET r == lookup(heap, last.x - 1,
                               BornOf(BornOf(last.env).clo).env)
               IN lk.kind = r.kind /\ (r.kind = "value" => lk.val = r.val)
  /\ (IsApplyProgram /\ status # "running")
       => (status = "halted" /\ result = code[3])

(* a closure applied in an environment other than the one it was built in, *)
(* whose body then reads a variable of the environment it was built in     *)
WitLexicalScope ==
  /\ last.op = LD /\ last.x = 1 /\ BodyEnvOf(last.env, LDF)
  /\ lk.kind = "value"
  /\ BornOf(BornOf(last.env).clo).env # NULL
  /\ Len(gdump) > 0
  /\ gdump[Len(gdump)].env # BornOf(BornOf(last.env).clo).env
  /\ lk.val # BornOf(last.env).arg
  /\ status = "running"

EnvPtrs == {NULL} \cup {AddrOf(i) : i \in 1..Len(heap)}

(* C3 as stated: lookup(n, env) with n at least the length of env ends in  *)
(* the assertion failure; it neither returns nor reads through the empty   *)
(* tail.                                                                   *)
LookupPastEndFaults ==
  (lk.kind # "none" /\ lk.n >= EnvLen(heap, lk.env)) => lk.kind = "assert"

(* C10: lookup(0, extend(v, env)) = v and, for n less than the length of   *)
(* env, lookup(n+1, extend(v, env)) = lookup(n, env).                      *)
EnvironmentLaws ==
  \A e \in EnvPtrs, v \in EnvVals :
    LET r == extend(heap, v, e)
    IN /\ lookup(r.heap, 0, r.ptr) = [kind |-> "value", val |-> v]
       /\ \A n \in 0..(EnvLen(heap, e) - 1) :
            /\ lookup(heap, n, e).kind = "value"
            /\ lookup(r.heap, n + 1, r.ptr) = lookup(heap, n, e)

(* lookup has walked past a binding that shadows nothing it returns        *)
WitEnvironmentLaws ==
  /\ EnvLen(heap, env) = MaxDepth
  /\ lk.kind = "value" /\ lk.n = MaxDepth - 1 /\ lk.env = env
  /\ lk.val # CellAt(heap, env).a

----------------------------------------------------------------------------
(* The stack indices an instruction reads or writes, sp being the stack    *)
(* pointer it was fetched with.                                            *)
StackTouched(op, s) ==
  IF op \in {ADD, SUB, MUL, AP} THEN {s - 1, s - 2}
  ELSE IF op \in {SEL, HALT} THEN {s - 1}
  ELSE IF op \in {LDC, LD, LDF, LDRF} THEN {s}
  ELSE {}

(* C11 as stated: when the instruction just executed touched the operand   *)
(* stack outside 0..STACK_MAX-1, the machine has stopped with a fault: it  *)
(* neither runs on to the next fetch nor yields a result.                  *)
StackAccessSafe ==
  (last.op \in Opcodes /\ ~(StackTouched(last.op, last.sp) \subseteq StackIdx))
    => status \notin {"running", "halted"}

(* C12: no step changes or removes a cell allocated by an earlier step: an *)
(* environment node keeps its element and its next link, a closure its     *)
(* code address and its environment.  The one write to a constructed node  *)
(* is LDRF's, in the step that creates the node: after LDRF the node holds *)
(* the closure allocated with it.                                          *)
EnvImmutable ==
  /\ [][/\ Len(heap') >= Len(heap)
        /\ \A i \in 1..Len(heap) : heap'[i] = heap[i]]_vars
  /\ [](last.op = LDRF =>
          /\ Len(heap) = last.cells + 2
          /\ heap[last.cells + 1] =
               [kind |-> "env", a |-> AddrOf(last.cells + 2), b |-> last.env])

(* LDRF executed in an environment that holds a node built earlier         *)
WitEnvImmutable ==
  /\ last.op = LDRF
  /\ IsEnvNode(heap, last.env)
  /\ CellAt(heap, last.env).a # last.y
  /\ status = "running"

(* C13: right after LDRF t executed in environment E, the closure c on top *)
(* of the stack has code address t and an environment whose first node     *)
(* holds c and links to E, so lookup(0, c.env) = c and lookup(n+1, c.env)  *)
(* = lookup(n, E); the environment register is still E.                    *)
KnotTied ==
  (last.op = LDRF /\ last.at + 1 < CODE_MAX)
    => LET c == stack[last.sp]
           E == last.env
       IN /\ c = last.y
          /\ sp = last.sp + 1
          /\ IsClosure(heap, c)
          /\ CellAt(heap, c).a = code[last.at + 1]
          /\ IsEnvNode(heap, CellAt(heap, c).b)
          /\ CellAt(heap, CellAt(heap, c).b).a = c
          /\ CellAt(heap, CellAt(heap, c).b).b = E
          /\ lookup(heap, 0, CellAt(heap, c).b) = [kind |-> "value", val |-> c]
          /\ \A n \in 0..(EnvLen(heap, E) + 1) :
               lookup(heap, n + 1, CellAt(heap, c).b) = lookup(heap, n, E)
          /\ env = E

(* LDRF executed inside a call, where E is not empty                       *)
WitKnotTied ==
  /\ last.op = LDRF /\ last.at + 1 < CODE_MAX
  /\ EnvLen(heap, last.env) >= 1
  /\ IsClosure(heap, stack[last.sp])
  /\ lookup(heap, 1, CellAt(heap, stack[last.sp]).b).kind = "value"
  /\ env = last.env
  /\ status = "running"

(* C14: RTN or JOIN executed with an empty dump, and AP or SEL executed    *)
(* with the dump holding the most frames the loop lets it hold, end the    *)
(* run: the register assertion on dp fails (or the undefined access of the *)
(* instruction has already ended the process), and no further instruction  *)
(* is fetched.  With no undefined access it is the assertion that fails.   *)
DumpBoundsFault ==
  /\ (last.op \in {RTN, JOIN} /\ last.dp = 0)
       => (dp = 0 - 1 /\ status \in {"bounds", "crash"})
  /\ (last.op \in {AP, SEL} /\ last.dp >= DUMP_MAX - 1)
       => /\ dp >= DUMP_MAX
          /\ status \in {"bounds", "crash"}
          /\ (/\ StackTouched(last.op, last.sp) \subseteq StackIdx
              /\ last.op = AP => IsClosure(heap, last.y)
              /\ last.op = SEL => last.at + 2 < CODE_MAX)
               => status = "bounds"

(* a return with nothing on the dump, stopped by the assertion             *)
WitDumpBoundsFault ==
  /\ last.op = RTN /\ last.dp = 0
  /\ dp = 0 - 1
  /\ status = "bounds"

(* C15: whenever the loop is about to fetch an instruction, sp is in       *)
(* 0..STACK_MAX-1, dp is in 0..DUMP_MAX-1 and pc is in 0..CODE_MAX-1.      *)
FetchRegsInRange ==
  status = "running"
    => /\ 0 <= sp /\ sp <= STACK_MAX - 1
       /\ 0 <= dp /\ dp <= DUMP_MAX - 1
       /\ 0 <= pc /\ pc <= CODE_MAX - 1

(* a fetch after an instruction left the stack one short of its capacity   *)
WitFetchRegsInRange ==
  /\ status = "running"
  /\ last.op \in Opcodes
  /\ sp = STACK_MAX - 1
  /\ dp > 0

(* C16 as stated: a push that brings the operand stack to exactly          *)
(* STACK_MAX values (last write at index STACK_MAX-1), or the dump to      *)
(* exactly DUMP_MAX frames (last write at index DUMP_MAX-1), with the      *)
(* other registers in range, does not raise a bounds fault.                *)
FullCapacityNoFault ==
  /\ (/\ last.op \in {LDC, LD, LDF, LDRF}
      /\ last.sp = STACK_MAX - 1 /\ sp = STACK_MAX
      /\ pc \in CodeIdx /\ dp \in DumpIdx)
       => status # "bounds"
  /\ (/\ last.op \in {AP, SEL}
      /\ last.dp = DUMP_MAX - 1 /\ dp = DUMP_MAX
      /\ pc \in CodeIdx /\ sp \in StackIdx)
       => status # "bounds"

(* C17: RTN and JOIN decrease dp by exactly one and change neither sp nor  *)
(* any element of the operand stack, so the top of the stack is the same   *)
(* before and after; AP and SEL increase dp by exactly one; every other    *)
(* instruction leaves dp and the contents of the dump unchanged.           *)
DumpStackEffect ==
  [][status = "running"
       => LET op == code[pc]
          IN /\ op \in {RTN, JOIN}
                  => /\ dp' = dp - 1
                     /\ sp' = sp
                     /\ stack' = stack
                     /\ sp \in 1..STACK_MAX => stack'[sp' - 1] = stack[sp - 1]
             /\ op \in {AP, SEL} => dp' = dp + 1
             /\ op \notin {RTN, JOIN, AP, SEL}
                  => /\ dp' = dp
                     /\ dump' = dump]_vars

(* a return taken with a value on the stack and a frame on the dump        *)
WitDumpStackEffect ==
  /\ last.op = RTN
  /\ last.dp > 0 /\ dp = last.dp - 1
  /\ last.sp > 0 /\ sp = last.sp
  /\ status = "running"

(* C18: LDF allocates exactly one cell (a closure), LDRF exactly two (an   *)
(* environment node, then a closure), AP exactly one (an environment       *)
(* node); LDC, LD, ADD, SUB, MUL, SEL, RTN, JOIN, HALT allocate nothing,   *)
(* and no instruction releases a cell.                                     *)
AllocFootprint ==
  [][status = "running"
       => LET op == code[pc]
              old == Len(heap)
              n == Len(heap') - Len(heap)
          IN /\ n >= 0
             /\ op = LDF => /\ n = 1
                            /\ heap'[old + 1].kind = "clo"
             /\ op = LDRF => /\ n = 2
                             /\ heap'[old + 1].kind = "env"
                             /\ heap'[old + 2].kind = "clo"
             /\ (op = AP /\ status' # "crash")
                  => /\ n = 1
                     /\ heap'[old + 1].kind = "env"
             /\ (op = AP /\ status' = "crash") => n = 0
             /\ op \notin {LDF, LDRF, AP} => heap' = heap]_vars

(* an application that allocated its one node in a heap that already holds *)
(* the two cells of an LDRF                                                *)
WitAllocFootprint ==
  /\ last.op = AP
  /\ Len(heap) = last.cells + 1
  /\ heap[Len(heap)].kind = "env"
  /\ \E i \in 1..Len(born) : born[i].by = LDRF
  /\ status = "running"

====
